---- MODULE Spec2Model ----
(***************************************************************************)
(* A model of src/src/main.rs: the ring card game.  N players, N decks     *)
(* behind mutexes, the deal, the 'game loop and Player::take_turn.         *)
(*                                                                         *)
(* The code indexes vectors from 0; sequences here are indexed from 1, so  *)
(* decks[j] of the code is decks[j + 1] of the model, and Deck.number and  *)
(* Player.number (1..n) are the model's indices.  A Card is its rank.      *)
(***************************************************************************)
EXTENDS Integers, Sequences, FiniteSets, TLC

VARIABLES
    n,              \* main: the player count returned by get_n
    loaded,         \* the pack as get_pack returned it (never changed)
    pack,           \* main: `pack`, the Vec<Card> the deal consumes
    decks,          \* decks[d]: Deck d's `cards`, front first
    lock,           \* lock[d]: the player holding Deck d's Mutex, 0 when free
    draw_deck,      \* Player.draw_deck, a deck number
    discard_deck,   \* Player.discard_deck, a deck number
    hand,           \* Player.hand
    main_pc,        \* where main is
    cur,            \* the player the `for player in &mut players` is at
    tpc,            \* tpc[p]: where player p's take_turn is
    new_card,       \* take_turn's local `new_card`
    discard_card,   \* take_turn's local `discard_card`
    turns           \* the number of take_turn calls made so far

vars == <<n, loaded, pack, decks, lock, draw_deck, discard_deck, hand,
          main_pc, cur, tpc, new_card, discard_card, turns>>

----------------------------------------------------------------------------
(* Bounds of the model *)

MaxPlayers == 3     \* player counts 1..MaxPlayers
NumShapes == 10     \* the packs of the program runs: shapes 1..NumShapes
MaxTurns == 7       \* take_turn calls in a program run
MaxRank == 3        \* ranks 1..MaxRank in the unit runs
UnitDeckLen == 1    \* longest deck a unit run starts with
UnitTurns == 3      \* take_turn calls in a unit run
ParTurns == 4       \* take_turn calls in a concurrent run

(* Program constants *)

HandSize == 4       \* cards dealt to each deck and to each hand (4 * n)
PackFactor == 8     \* a pack holds 8 * n cards

NoCard == -1        \* an unset local (a moved-out or not yet bound Card)
None == 0           \* Option::None of select_discard_card (positions are 1..)

----------------------------------------------------------------------------
(* Vec and VecDeque operations *)

\* Vec::remove(k), k counted from 1: the vector without its k-th element
Remove(s, k) == SubSeq(s, 1, k - 1) \o SubSeq(s, k + 1, Len(s))

\* push_back where push_front was meant
PushFront_back(d, c) == Append(d, c)

\* VecDeque::push_front
PushFront(d, c) == <<c>> \o d

\* push_back that drops the card
PushBack_lost(d, c) == d

\* VecDeque::push_back
PushBack(d, c) == Append(d, c)

\* a front() read for pop_front: the card stays in the deque
PopFrontRest_kept(d) == d

\* VecDeque::pop_front: what is left of a non-empty deque
PopFrontRest(d) == Tail(d)

\* Iterator::position: the first place of s holding c
RECURSIVE Position(_, _, _)
Position(s, c, k) ==
    IF k > Len(s) THEN None
    ELSE IF s[k] = c THEN k
    ELSE Position(s, c, k + 1)

----------------------------------------------------------------------------
(* Player *)

\* has_winning_hand that looks at the first window only
has_winning_hand_first(h) == Len(h) < 2 \/ h[1] = h[2]

\* has_winning_hand with `any` for `all`
has_winning_hand_any(h) == \E k \in 1..(Len(h) - 1) : h[k] = h[k + 1]

\* Player::has_winning_hand: hand.windows(2).all(|w| w[0] == w[1])
has_winning_hand(h) == \A k \in 1..(Len(h) - 1) : h[k] = h[k + 1]

\* `possibles` without the filter: every card of the hand
possibles_unfiltered(h, number) == h

\* select_discard_card: `possibles`, the cards of the hand whose rank is not
\* the player's number, in hand order
possibles(h, number) == SelectSeq(h, LAMBDA c : c # number)

\* select_discard_card: every value it can return.  `choose` picks any element
\* of `possibles` (None when there is none) and `position` gives the first
\* place of the hand holding an equal card.
select_discard_card(h, number) ==
    LET ps == possibles(h, number)
    IN  IF ps = <<>> THEN {None}
        ELSE {Position(h, ps[k], 1) : k \in 1..Len(ps)}

\* the Some arm without hand.remove
HandAfterSwap_kept(h, discard_index, nc) == Append(h, nc)

\* the Some arm with the new card put first: hand.insert(0, new_card)
HandAfterSwap_front(h, discard_index, nc) == <<nc>> \o Remove(h, discard_index)

\* take_turn, the Some arm: hand.remove(discard_index); hand.push(new_card)
HandAfterSwap(h, discard_index, nc) == Append(Remove(h, discard_index), nc)

\* dropping the MutexGuards player p holds: the locks afterwards
DropGuards(l, p) == [d \in DOMAIN l |-> IF l[d] = p THEN 0 ELSE l[d]]

----------------------------------------------------------------------------
(* main: construction and the deal *)

\* (1..=n).map(|i| Deck { number: i, cards: VecDeque::new() })
NewDecks(nn) == [d \in 1..nn |-> <<>>]

\* "Deal cards to decks": the loop from i on, for i in (4 * n)..(8 * n),
\* decks[i % n].cards.push_front(pack.remove(4 * n))
RECURSIVE DealDecksFrom(_, _, _, _)
DealDecksFrom(i, nn, ds, pk) ==
    IF i >= PackFactor * nn THEN [decks |-> ds, pack |-> pk]
    ELSE LET after ==
                 [decks |-> [ds EXCEPT ![(i % nn) + 1] =
                                PushFront(@, pk[HandSize * nn + 1])],
                  pack |-> Remove(pk, HandSize * nn + 1)]
         \* st is the value of `after`, computed once for the iterations left
         IN  CHOOSE r \in {DealDecksFrom(i + 1, nn, st.decks, st.pack) :
                              st \in {after}} : TRUE

\* Player construction: draw_deck: &decks[i - 1]
DrawDeckOf(i, nn) == (i - 1) + 1

\* discard_deck one deck further round the ring: &decks[(i + 1) % n]
DiscardDeckOf_further(i, nn) == ((i + 1) % nn) + 1

\* Player construction: discard_deck: &decks[(i) % n]
DiscardDeckOf(i, nn) == (i % nn) + 1

\* the deal to players taking the cards from the front: pack.remove(0)
RECURSIVE DealHandsFrom_front(_, _, _, _)
DealHandsFrom_front(i, nn, hs, pk) ==
    IF i < 0 THEN [hand |-> hs, pack |-> pk]
    ELSE LET after ==
                 [hand |-> [hs EXCEPT ![(i % nn) + 1] = Append(@, pk[1])],
                  pack |-> Tail(pk)]
         IN  CHOOSE r \in {DealHandsFrom_front(i - 1, nn, st.hand, st.pack) :
                              st \in {after}} : TRUE

\* "Deal cards to players": the loop from i down, for i in (0..4 * n).rev(),
\* players[i % n].hand.push(pack.pop())
RECURSIVE DealHandsFrom(_, _, _, _)
DealHandsFrom(i, nn, hs, pk) ==
    IF i < 0 THEN [hand |-> hs, pack |-> pk]
    ELSE LET after ==
                 [hand |-> [hs EXCEPT ![(i % nn) + 1] = Append(@, pk[Len(pk)])],
                  pack |-> SubSeq(pk, 1, Len(pk) - 1)]
         \* st is the value of `after`, computed once for the iterations left
         IN  CHOOSE r \in {DealHandsFrom(i - 1, nn, st.hand, st.pack) :
                              st \in {after}} : TRUE

----------------------------------------------------------------------------
(* The packs get_pack returns in the program runs: usize ranks, 8 * n of   *)
(* them.  PackCard(k, p, nn) is the rank at position p (from 0) of the     *)
(* pack of shape k.                                                        *)

PackCard(k, p, nn) ==
    CASE k = 1 -> p + 1                           \* all ranks differ
      [] k = 2 -> (p % nn) + 1                    \* player i is dealt i,i,i,i
      [] k = 3 -> ((p + 1) % nn) + 1              \* four of a kind, another rank
      [] k = 4 -> IF p < nn THEN ((p + 1) % nn) + 1 ELSE (p % nn) + 1
                                                  \* one card short of a win
      [] k = 5 -> IF p % nn = 1 THEN 2 ELSE ((p \div nn) % 3) + 1
                                                  \* only player 2 is dealt a win
      [] k = 6 -> IF p % nn = nn - 1 THEN 0 ELSE (p \div nn) % 2
                                                  \* only the last player is
      [] k = 7 -> (p \div HandSize) % 3           \* runs of four, rank 0 too
      [] k = 8 -> p \div 3                        \* no rank four times
      [] OTHER -> (((p * k) \div 3) % 3) + 1

Packs(nn) ==
    {[i \in 1..(PackFactor * nn) |-> PackCard(k, i - 1, nn)] : k \in 1..NumShapes}

----------------------------------------------------------------------------
(* main, up to the game loop *)

\* main after get_n, get_pack and the construction of the empty decks
Init ==
    /\ n \in 1..MaxPlayers
    /\ loaded \in Packs(n)
    /\ pack = loaded
    /\ decks = NewDecks(n)
    /\ lock = [d \in 1..n |-> 0]
    /\ draw_deck = <<>>
    /\ discard_deck = <<>>
    /\ hand = <<>>
    /\ main_pc = "deal_decks"
    /\ cur = 1
    /\ tpc = [p \in 1..n |-> "idle"]
    /\ new_card = [p \in 1..n |-> NoCard]
    /\ discard_card = [p \in 1..n |-> NoCard]
    /\ turns = 0

\* "Deal cards to decks"
DealDecks ==
    /\ main_pc = "deal_decks"
    /\ LET r == DealDecksFrom(HandSize * n, n, decks, pack)
       IN  /\ decks' = r.decks
           /\ pack' = r.pack
    /\ main_pc' = "make_players"
    /\ UNCHANGED <<n, loaded, lock, draw_deck, discard_deck, hand, cur, tpc,
                   new_card, discard_card, turns>>

\* the decks go behind Arc<Mutex<_>> and the players are built, hands empty
MakePlayers ==
    /\ main_pc = "make_players"
    /\ draw_deck' = [i \in 1..n |-> DrawDeckOf(i, n)]
    /\ discard_deck' = [i \in 1..n |-> DiscardDeckOf(i, n)]
    /\ hand' = [i \in 1..n |-> <<>>]
    /\ main_pc' = "deal_hands"
    /\ UNCHANGED <<n, loaded, pack, decks, lock, cur, tpc, new_card,
                   discard_card, turns>>

\* "Deal cards to players"; the 'game loop starts at the first player
DealHands ==
    /\ main_pc = "deal_hands"
    /\ LET r == DealHandsFrom(HandSize * n - 1, n, hand, pack)
       IN  /\ hand' = r.hand
           /\ pack' = r.pack
    /\ main_pc' = "check_before"
    /\ cur' = 1
    /\ UNCHANGED <<n, loaded, decks, lock, draw_deck, discard_deck, tpc,
                   new_card, discard_card, turns>>

----------------------------------------------------------------------------
(* Player::take_turn, one action for each step that touches shared state *)

\* self.draw_deck.lock(): waits while another player holds the mutex
LockDraw(p) ==
    /\ tpc[p] = "lock_draw"
    /\ lock[draw_deck[p]] = 0
    /\ lock' = [lock EXCEPT ![draw_deck[p]] = p]
    /\ tpc' = [tpc EXCEPT ![p] = "pop"]
    /\ UNCHANGED <<n, loaded, pack, decks, draw_deck, discard_deck, hand,
                   main_pc, cur, new_card, discard_card, turns>>

\* pop_front().unwrap_or_default(): an empty deck yields Card(0) and the turn
\* goes on
PopFront_default(p) ==
    /\ tpc[p] = "pop"
    /\ IF decks[draw_deck[p]] = <<>>
       THEN /\ new_card' = [new_card EXCEPT ![p] = 0]
            /\ decks' = decks
       ELSE /\ new_card' = [new_card EXCEPT ![p] = Head(decks[draw_deck[p]])]
            /\ decks' = [decks EXCEPT ![draw_deck[p]] = PopFrontRest(@)]
    /\ tpc' = [tpc EXCEPT ![p] = "select"]
    /\ UNCHANGED <<n, loaded, pack, lock, draw_deck, discard_deck, hand,
                   main_pc, cur, discard_card, turns>>

\* draw_deck.cards.pop_front(): None ends the turn, and the return drops the
\* guard; Some(nc) binds new_card
PopFront(p) ==
    /\ tpc[p] = "pop"
    /\ IF decks[draw_deck[p]] = <<>>
       THEN /\ lock' = DropGuards(lock, p)
            /\ tpc' = [tpc EXCEPT ![p] = "returned"]
            /\ UNCHANGED <<decks, new_card>>
       ELSE /\ new_card' = [new_card EXCEPT ![p] = Head(decks[draw_deck[p]])]
            /\ decks' = [decks EXCEPT ![draw_deck[p]] = PopFrontRest(@)]
            /\ tpc' = [tpc EXCEPT ![p] = "select"]
            /\ UNCHANGED lock
    /\ UNCHANGED <<n, loaded, pack, draw_deck, discard_deck, hand, main_pc,
                   cur, discard_card, turns>>

\* let discard_card = match self.select_discard_card() { ... }
SelectDiscard(p) ==
    /\ tpc[p] = "select"
    /\ \E discard_index \in select_discard_card(hand[p], p) :
          IF discard_index # None
          THEN /\ discard_card' =
                      [discard_card EXCEPT ![p] = hand[p][discard_index]]
               /\ hand' = [hand EXCEPT
                      ![p] = HandAfterSwap(@, discard_index, new_card[p])]
          ELSE /\ discard_card' = [discard_card EXCEPT ![p] = new_card[p]]
               /\ hand' = hand
    /\ new_card' = [new_card EXCEPT ![p] = NoCard]
    /\ tpc' = [tpc EXCEPT ![p] = "lock_discard"]
    /\ UNCHANGED <<n, loaded, pack, decks, lock, draw_deck, discard_deck,
                   main_pc, cur, turns>>

\* a lock of the discard deck that does not wait for its holder
LockDiscard_nowait(p) ==
    /\ tpc[p] = "lock_discard"
    /\ lock[discard_deck[p]] # p
    /\ lock' = [lock EXCEPT ![discard_deck[p]] = p]
    /\ tpc' = [tpc EXCEPT ![p] = "push"]
    /\ UNCHANGED <<n, loaded, pack, decks, draw_deck, discard_deck, hand,
                   main_pc, cur, new_card, discard_card, turns>>

\* a lock of the discard deck taken after the draw deck's guard is dropped
LockDiscard_dropped(p) ==
    /\ tpc[p] = "lock_discard"
    /\ lock[discard_deck[p]] = 0
    /\ lock' = [lock EXCEPT ![draw_deck[p]] = 0, ![discard_deck[p]] = p]
    /\ tpc' = [tpc EXCEPT ![p] = "push"]
    /\ UNCHANGED <<n, loaded, pack, decks, draw_deck, discard_deck, hand,
                   main_pc, cur, new_card, discard_card, turns>>

\* self.discard_deck.lock(), the draw deck's guard still alive: waits while
\* another player holds the mutex
LockDiscard(p) ==
    /\ tpc[p] = "lock_discard"
    /\ lock[discard_deck[p]] = 0
    /\ lock' = [lock EXCEPT ![discard_deck[p]] = p]
    /\ tpc' = [tpc EXCEPT ![p] = "push"]
    /\ UNCHANGED <<n, loaded, pack, decks, draw_deck, discard_deck, hand,
                   main_pc, cur, new_card, discard_card, turns>>

\* self.discard_deck.lock() on a mutex this thread already holds.  std's
\* Mutex::lock leaves this unspecified, only that the call never returns: it
\* deadlocks or it panics.
LockDiscardHeld(p) ==
    /\ tpc[p] = "lock_discard"
    /\ lock[discard_deck[p]] = p
    /\ \E outcome \in {"hung", "panicked"} : main_pc' = outcome
    /\ UNCHANGED <<n, loaded, pack, decks, lock, draw_deck, discard_deck, hand,
                   cur, tpc, new_card, discard_card, turns>>

\* discard_deck.cards.push_back(discard_card); the return drops both guards
PushDiscard(p) ==
    /\ tpc[p] = "push"
    /\ decks' = [decks EXCEPT ![discard_deck[p]] = PushBack(@, discard_card[p])]
    /\ discard_card' = [discard_card EXCEPT ![p] = NoCard]
    /\ lock' = DropGuards(lock, p)
    /\ tpc' = [tpc EXCEPT ![p] = "returned"]
    /\ UNCHANGED <<n, loaded, pack, draw_deck, discard_deck, hand, main_pc,
                   cur, new_card, turns>>

----------------------------------------------------------------------------
(* main: the 'game loop *)

\* a round that stops one player short
NextPlayer_short(i, nn) == IF i + 1 >= nn THEN 1 ELSE i + 1

\* the `for player in &mut players` inside `loop`: the player after i
NextPlayer(i, nn) == IF i = nn THEN 1 ELSE i + 1

\* no check before the turn
CheckBefore_skipped ==
    /\ main_pc = "check_before"
    /\ main_pc' = "call_turn"
    /\ UNCHANGED <<n, loaded, pack, decks, lock, draw_deck, discard_deck, hand,
                   cur, tpc, new_card, discard_card, turns>>

\* if player.has_winning_hand() { break 'game; }, before the turn
CheckBefore ==
    /\ main_pc = "check_before"
    /\ main_pc' = IF has_winning_hand(hand[cur]) THEN "finished" ELSE "call_turn"
    /\ UNCHANGED <<n, loaded, pack, decks, lock, draw_deck, discard_deck, hand,
                   cur, tpc, new_card, discard_card, turns>>

\* player.take_turn(): the call (the model makes at most `limit` calls)
CallTakeTurn(limit) ==
    /\ main_pc = "call_turn"
    /\ turns < limit
    /\ turns' = turns + 1
    /\ tpc' = [tpc EXCEPT ![cur] = "lock_draw"]
    /\ main_pc' = "in_turn"
    /\ UNCHANGED <<n, loaded, pack, decks, lock, draw_deck, discard_deck, hand,
                   cur, new_card, discard_card>>

\* no check after the turn
AfterTurn_unchecked(winning) == "check_before"

\* the main_pc after the check that follows the turn
AfterTurn(winning) == IF winning THEN "finished" ELSE "check_before"

\* take_turn has returned: if player.has_winning_hand() { break 'game; },
\* otherwise on to the next player
CheckAfter ==
    /\ main_pc = "in_turn"
    /\ tpc[cur] = "returned"
    /\ tpc' = [tpc EXCEPT ![cur] = "idle"]
    /\ main_pc' = AfterTurn(has_winning_hand(hand[cur]))
    /\ cur' = IF main_pc' = "finished" THEN cur ELSE NextPlayer(cur, n)
    /\ UNCHANGED <<n, loaded, pack, decks, lock, draw_deck, discard_deck, hand,
                   new_card, discard_card, turns>>

Next ==
    \/ DealDecks
    \/ MakePlayers
    \/ DealHands
    \/ CheckBefore
    \/ CallTakeTurn(MaxTurns)
    \/ \E p \in 1..n : LockDraw(p)
    \/ \E p \in 1..n : PopFront(p)
    \/ \E p \in 1..n : SelectDiscard(p)
    \/ \E p \in 1..n : LockDiscard(p)
    \/ \E p \in 1..n : LockDiscardHeld(p)
    \/ \E p \in 1..n : PushDiscard(p)
    \/ CheckAfter

Spec == Init /\ [][Next]_vars

\* main is one thread that runs whenever it can take a step
SpecFair == Spec /\ WF_vars(Next)

----------------------------------------------------------------------------
(* Unit runs: take_turn and the 'game loop over players and decks built    *)
(* directly, as a test of Player would build them.  The ring is the one    *)
(* main builds; one player's hand and draw deck range over all small       *)
(* values, the other decks start empty.                                    *)

Ranks == 1..MaxRank

\* the sequences over S of length len
SeqsOfLen(S, len) == [1..len -> S]

UnitHands == SeqsOfLen(Ranks, 0) \cup SeqsOfLen(Ranks, 1) \cup SeqsOfLen(Ranks, HandSize)

UnitDecks == UNION {SeqsOfLen(Ranks, len) : len \in 0..UnitDeckLen}

\* the hand of a player other than the one under test
OtherHand(i, nn) == [k \in 1..HandSize |-> IF k = 2 THEN (i % nn) + 1 ELSE i]

InitUnit ==
    /\ n \in 1..MaxPlayers
    /\ loaded = <<>>
    /\ pack = <<>>
    /\ \E q \in 1..n :
          /\ \E h \in UnitHands :
                hand = [i \in 1..n |-> IF i = q THEN h ELSE OtherHand(i, n)]
          /\ \E d \in UnitDecks :
                decks = [i \in 1..n |-> IF i = DrawDeckOf(q, n) THEN d ELSE <<>>]
    /\ lock = [d \in 1..n |-> 0]
    /\ draw_deck = [i \in 1..n |-> DrawDeckOf(i, n)]
    /\ discard_deck = [i \in 1..n |-> DiscardDeckOf(i, n)]
    /\ main_pc \in {"test", "check_before"}
    /\ cur = 1
    /\ tpc = [p \in 1..n |-> "idle"]
    /\ new_card = [p \in 1..n |-> NoCard]
    /\ discard_card = [p \in 1..n |-> NoCard]
    /\ turns = 0

\* a test calls player p's take_turn
TestCall(p) ==
    /\ main_pc = "test"
    /\ turns < UnitTurns
    /\ turns' = turns + 1
    /\ cur' = p
    /\ tpc' = [tpc EXCEPT ![p] = "lock_draw"]
    /\ main_pc' = "test_turn"
    /\ UNCHANGED <<n, loaded, pack, decks, lock, draw_deck, discard_deck, hand,
                   new_card, discard_card>>

\* the call returns to the test
TestReturn ==
    /\ main_pc = "test_turn"
    /\ tpc[cur] = "returned"
    /\ tpc' = [tpc EXCEPT ![cur] = "idle"]
    /\ main_pc' = "test"
    /\ UNCHANGED <<n, loaded, pack, decks, lock, draw_deck, discard_deck, hand,
                   cur, new_card, discard_card, turns>>

NextUnit ==
    \/ \E p \in 1..n : TestCall(p)
    \/ TestReturn
    \/ CheckBefore
    \/ CallTakeTurn(UnitTurns)
    \/ \E p \in 1..n : LockDraw(p)
    \/ \E p \in 1..n : PopFront(p)
    \/ \E p \in 1..n : SelectDiscard(p)
    \/ \E p \in 1..n : LockDiscard(p)
    \/ \E p \in 1..n : LockDiscardHeld(p)
    \/ \E p \in 1..n : PushDiscard(p)
    \/ CheckAfter

SpecUnit == InitUnit /\ [][NextUnit]_vars

----------------------------------------------------------------------------
(* Concurrent runs: after main's deal, the players' take_turn calls run    *)
(* one thread per player, each taking the two locks in the code's order.   *)

InitPar ==
    /\ n \in 1..MaxPlayers
    /\ loaded \in Packs(n)
    /\ pack = <<>>
    /\ decks = DealDecksFrom(HandSize * n, n, NewDecks(n), loaded).decks
    /\ hand = DealHandsFrom(HandSize * n - 1, n, [i \in 1..n |-> <<>>],
                            SubSeq(loaded, 1, HandSize * n)).hand
    /\ lock = [d \in 1..n |-> 0]
    /\ draw_deck = [i \in 1..n |-> DrawDeckOf(i, n)]
    /\ discard_deck = [i \in 1..n |-> DiscardDeckOf(i, n)]
    /\ main_pc = "threads"
    /\ cur = 1
    /\ tpc = [p \in 1..n |-> "idle"]
    /\ new_card = [p \in 1..n |-> NoCard]
    /\ discard_card = [p \in 1..n |-> NoCard]
    /\ turns = 0

\* player p's thread calls take_turn
ThreadCall(p) ==
    /\ main_pc = "threads"
    /\ tpc[p] = "idle"
    /\ turns < ParTurns
    /\ turns' = turns + 1
    /\ tpc' = [tpc EXCEPT ![p] = "lock_draw"]
    /\ UNCHANGED <<n, loaded, pack, decks, lock, draw_deck, discard_deck, hand,
                   main_pc, cur, new_card, discard_card>>

\* the call returns to player p's thread
ThreadReturn(p) ==
    /\ main_pc = "threads"
    /\ tpc[p] = "returned"
    /\ tpc' = [tpc EXCEPT ![p] = "idle"]
    /\ UNCHANGED <<n, loaded, pack, decks, lock, draw_deck, discard_deck, hand,
                   main_pc, cur, new_card, discard_card, turns>>

NextPar ==
    \/ \E p \in 1..n : ThreadCall(p)
    \/ \E p \in 1..n : ThreadReturn(p)
    \/ \E p \in 1..n : LockDraw(p)
    \/ \E p \in 1..n : PopFront(p)
    \/ \E p \in 1..n : SelectDiscard(p)
    \/ \E p \in 1..n : LockDiscard(p)
    \/ \E p \in 1..n : LockDiscardHeld(p)
    \/ \E p \in 1..n : PushDiscard(p)

SpecPar == InitPar /\ [][NextPar]_vars

----------------------------------------------------------------------------
(* Vocabulary of the properties *)

\* the deal is over (the players exist and hold their hands)
Dealt == main_pc \notin {"deal_decks", "make_players", "deal_hands"}

\* the players have been built
PlayersBuilt == main_pc \notin {"deal_decks", "make_players"}

\* no take_turn is between its first and its last statement
AtTurnBoundary == \A p \in 1..n : tpc[p] \in {"idle", "lock_draw", "returned"}

\* what the deal makes of the loaded pack
DealtDecks == DealDecksFrom(HandSize * n, n, NewDecks(n), loaded).decks
DealtHands ==
    DealHandsFrom(HandSize * n - 1, n, [i \in 1..n |-> <<>>],
                  SubSeq(loaded, 1, HandSize * n)).hand

\* how often rank r occurs in s
Count(s, r) == Cardinality({k \in DOMAIN s : s[k] = r})

\* how often rank r occurs in the decks and hands numbered 1..k
RECURSIVE HeldUpTo(_, _)
HeldUpTo(r, k) ==
    IF k = 0 THEN 0
    ELSE Count(decks[k], r) + Count(hand[k], r) + HeldUpTo(r, k - 1)

\* the number of cards in the decks and hands numbered 1..k
RECURSIVE CardsUpTo(_)
CardsUpTo(k) ==
    IF k = 0 THEN 0 ELSE Len(decks[k]) + Len(hand[k]) + CardsUpTo(k - 1)

RanksOf(s) == {s[k] : k \in DOMAIN s}

----------------------------------------------------------------------------
(* C1: card conservation.  In a program run with n >= 2, at every turn     *)
(* boundary after the deal, the decks and hands together hold 8 * n cards  *)
(* and hold each rank exactly as often as the loaded pack does.            *)
C1_CardConservation ==
    (Dealt /\ n >= 2 /\ AtTurnBoundary) =>
        /\ CardsUpTo(n) = PackFactor * n
        /\ \A r \in RanksOf(loaded) : HeldUpTo(r, n) = Count(loaded, r)

\* a second round has begun and cards have moved between decks and hands
C1_Witness ==
    /\ Dealt /\ n >= 2 /\ AtTurnBoundary
    /\ main_pc = "check_before"
    /\ turns > n
    /\ decks # DealtDecks
    /\ hand # DealtHands

(* C2: hand size.  After the deal every hand holds exactly 4 cards at the  *)
(* start and at the end of every take_turn, whatever was discarded.        *)
C2_HandSize ==
    Dealt =>
        \A p \in 1..n :
            tpc[p] \in {"idle", "lock_draw", "returned"} =>
                Len(hand[p]) = HandSize

\* a turn that swapped a card into the hand has just returned
C2_Witness ==
    /\ main_pc = "in_turn"
    /\ tpc[cur] = "returned"
    /\ hand[cur] # DealtHands[cur]
    /\ Len(hand[cur]) = HandSize

(* C3: no operation blocks for ever.  For every n >= 1, a take_turn that   *)
(* main has started never comes to a lock it cannot get: when it is about  *)
(* to lock its draw deck or its discard deck, that mutex is free (the only *)
(* thread that could release a held one is the waiting thread itself), and *)
(* main neither hangs nor panics.                                          *)
C3_NoTurnBlocks ==
    /\ main_pc \notin {"hung", "panicked"}
    /\ \A p \in 1..n :
          /\ tpc[p] = "lock_draw" => lock[draw_deck[p]] = 0
          /\ tpc[p] = "lock_discard" => lock[discard_deck[p]] = 0

(* C4: for every n >= 1 and every player i, the discard deck is another    *)
(* deck than the draw deck.                                                *)
C4_DistinctDecks ==
    PlayersBuilt => \A i \in 1..n : discard_deck[i] # draw_deck[i]

(* C5: ring topology.  Once the players are built, and for ever after,     *)
(* player i draws from deck i and discards to deck (i mod n) + 1, so each  *)
(* deck is the draw deck of exactly one player and the discard deck of     *)
(* exactly one player.                                                     *)
C5_Ring ==
    PlayersBuilt =>
        /\ \A i \in 1..n :
              /\ draw_deck[i] = i
              /\ discard_deck[i] = IF i = n THEN 1 ELSE i + 1
        /\ \A d \in 1..n :
              /\ Cardinality({i \in 1..n : draw_deck[i] = d}) = 1
              /\ Cardinality({i \in 1..n : discard_deck[i] = d}) = 1

\* three players, in the second round of play
C5_Witness ==
    /\ PlayersBuilt
    /\ n = MaxPlayers
    /\ turns > n
    /\ discard_deck[n] = 1
    /\ main_pc = "in_turn"

(* C6: the game loop ends at the first win check that returns true, and    *)
(* only there.  A check (before or after the turn) made on a winning hand  *)
(* takes main to "finished" without touching a deck or a hand; no step     *)
(* leaves "finished", so no later player takes a turn; and main reaches    *)
(* "finished" only from a check, made on a winning hand.                   *)
C6_StopsAtFirstWin ==
    [][ /\ main_pc # "finished"
        /\ (main_pc = "check_before" /\ has_winning_hand(hand[cur])) =>
              main_pc' = "finished"
        /\ (main_pc = "in_turn" /\ tpc[cur] = "returned"
               /\ has_winning_hand(hand[cur])) =>
              main_pc' = "finished"
        /\ main_pc' = "finished" =>
              /\ has_winning_hand(hand[cur])
              /\ \/ main_pc = "check_before"
                 \/ main_pc = "in_turn" /\ tpc[cur] = "returned"
              /\ UNCHANGED <<decks, hand, cur, turns>>
      ]_vars

\* the game ended in the middle of a round, on the check after a turn
C6_Witness ==
    /\ main_pc = "finished"
    /\ n >= 2
    /\ cur < n
    /\ turns = cur
    /\ hand # DealtHands

(* C7: the win check is made right after the deal for every player: if any *)
(* player is dealt a winning hand, no take_turn is ever called and no deck *)
(* or hand ever differs from what was dealt.                               *)
C7_DealtWinBeforeAnyTurn ==
    (Dealt /\ \E i \in 1..n : has_winning_hand(DealtHands[i])) =>
        /\ turns = 0
        /\ decks = DealtDecks
        /\ hand = DealtHands

(* C8: round-robin order.  In the game loop the k-th call of take_turn is  *)
(* made for player ((k - 1) mod n) + 1, only that player's turn is in      *)
(* progress, and the player looked at between turns is the next in ring    *)
(* order; this holds as well when draw decks are empty.                    *)
C8_RoundRobin ==
    /\ main_pc \in {"check_before", "call_turn"} => cur = (turns % n) + 1
    /\ main_pc = "in_turn" =>
          /\ turns >= 1
          /\ cur = ((turns - 1) % n) + 1
          /\ \A p \in 1..n : tpc[p] # "idle" => p = cur

\* in a later round a turn returns with every deck empty: it drew nothing
\* (a turn that draws leaves its card in a deck or takes one from a hand into
\* a deck), and the player had its slot all the same
C8_Witness ==
    /\ main_pc = "in_turn"
    /\ n >= 2
    /\ turns > n
    /\ tpc[cur] = "returned"
    /\ \A d \in 1..n : decks[d] = <<>>

(* C9: the empty-deck turn.  A take_turn that finds its draw deck empty    *)
(* locks the draw deck, then returns: no deck, no hand and no local card   *)
(* changes, line 70 (the lock of the discard deck) is never reached, and   *)
(* on return the player holds no lock.                                     *)
C9_EmptyDeckTurn ==
    [][ \A p \in 1..n :
          (decks[draw_deck[p]] = <<>> /\ tpc'[p] # tpc[p]) =>
             /\ tpc[p] = "lock_draw" =>
                   /\ tpc'[p] = "pop"
                   /\ lock' = [lock EXCEPT ![draw_deck[p]] = p]
                   /\ UNCHANGED <<decks, hand, new_card, discard_card>>
             /\ tpc[p] = "pop" =>
                   /\ tpc'[p] = "returned"
                   /\ \A d \in 1..n : lock'[d] # p
                   /\ UNCHANGED <<decks, hand, new_card, discard_card>>
      ]_vars

\* a test's first call has returned and every deck is empty, as at the call
C9_Witness ==
    /\ main_pc = "test_turn"
    /\ turns = 1
    /\ tpc[cur] = "returned"
    /\ \A d \in 1..n : decks[d] = <<>> /\ lock[d] = 0

\* the hand p, p, p, p
FourOf(p) == [k \in 1..HandSize |-> p]

(* C10: discard selection with no candidate.  When player p holds          *)
(* p, p, p, p and has drawn d, the card chosen for the discard is d and    *)
(* the hand stays p, p, p, p, whatever `choose` does; and the card pushed  *)
(* to the back of the discard deck is the card chosen.                     *)
C10_NoCandidate ==
    [][ \A p \in 1..n :
          /\ (tpc[p] = "select" /\ tpc'[p] # "select" /\ hand[p] = FourOf(p)) =>
                /\ discard_card'[p] = new_card[p]
                /\ hand'[p] = FourOf(p)
          /\ (tpc[p] = "push" /\ tpc'[p] # "push") =>
                decks'[discard_deck[p]] =
                    Append(decks[discard_deck[p]], discard_card[p])
      ]_vars

\* player p, holding p, p, p, p, drew a p and has passed it on: the discard
\* deck holds that one card (a swap never discards a p)
C10_Witness ==
    /\ main_pc = "test_turn"
    /\ n >= 2
    /\ turns = 1
    /\ tpc[cur] = "returned"
    /\ hand[cur] = FourOf(cur)
    /\ decks[discard_deck[cur]] = <<cur>>

(* C11: discard selection with candidates.  When the hand player p holds   *)
(* before the draw has a card of rank other than p, the card chosen for    *)
(* the discard is such a card of the hand; the hand afterwards is the old  *)
(* hand without that card, in the old order, with the drawn card appended. *)
(* And any candidate may be chosen: for each card of the hand of rank      *)
(* other than p, a step that discards a card of that rank is possible.     *)
C11_Candidate ==
    /\ [][ \A p \in 1..n :
             (tpc[p] = "select" /\ tpc'[p] # "select"
                 /\ \E k \in 1..Len(hand[p]) : hand[p][k] # p) =>
                \E k \in 1..Len(hand[p]) :
                    /\ hand[p][k] # p
                    /\ discard_card'[p] = hand[p][k]
                    /\ hand'[p] =
                          SubSeq(hand[p], 1, k - 1)
                              \o SubSeq(hand[p], k + 1, Len(hand[p]))
                              \o <<new_card[p]>>
         ]_vars
    /\ [](\A p \in 1..n :
             tpc[p] = "select" =>
                \A k \in 1..Len(hand[p]) :
                    hand[p][k] # p =>
                        ENABLED (SelectDiscard(p)
                                    /\ discard_card'[p] = hand[p][k]))

\* player 1 held 2, 1, 1 and a 3, drew a 3 and discards a 3, not the 2
C11_Witness ==
    /\ main_pc = "test_turn"
    /\ turns = 1
    /\ cur = 1
    /\ tpc[1] = "lock_discard"
    /\ hand[1] = <<2, 1, 1, 3>>
    /\ discard_card[1] = 3

\* all cards of h have the same rank
AllSame(h) == \A i, j \in 1..Len(h) : h[i] = h[j]

(* C12: the win predicate.  has_winning_hand is true of a hand exactly     *)
(* when all its cards have the same rank (false for 1,2,1,1, true for      *)
(* 3,3,3,3 and for a hand of one card), and a check in the game loop       *)
(* changes no hand and no deck and ends the game exactly on such a hand.   *)
C12_WinPredicate ==
    /\ [](/\ \A p \in 1..n : has_winning_hand(hand[p]) <=> AllSame(hand[p])
          /\ ~has_winning_hand(<<1, 2, 1, 1>>)
          /\ has_winning_hand(<<3, 3, 3, 3>>)
          /\ \A r \in Ranks : has_winning_hand(<<r>>))
    /\ [][ ((main_pc = "check_before"
               \/ (main_pc = "in_turn" /\ tpc[cur] = "returned"))
            /\ main_pc' # main_pc) =>
              /\ UNCHANGED <<decks, hand>>
              /\ main_pc' = "finished" <=> AllSame(hand[cur])
         ]_vars

\* the loop ended on a hand of one card
C12_Witness ==
    /\ main_pc = "finished"
    /\ Len(hand[cur]) = 1
    /\ turns = 0

(* C13: the deal of the decks.  Once the decks are dealt, and until the    *)
(* first turn, every deck holds 4 cards: front to back, deck d holds the   *)
(* pack's cards at positions p in 4n..8n-1 with p mod n = d - 1 in         *)
(* descending position order (a function of the pack and n alone), and     *)
(* the pack is left with its first 4n cards.                               *)
C13_DealDecks ==
    (main_pc # "deal_decks" /\ turns = 0) =>
        /\ \A d \in 1..n :
              /\ Len(decks[d]) = 4
              /\ \A k \in 1..4 :
                    decks[d][k] = loaded[4 * n + (4 - k) * n + (d - 1) + 1]
        /\ main_pc \in {"make_players", "deal_hands"} =>
              pack = SubSeq(loaded, 1, 4 * n)

\* three players and the pack 1..24: the decks right after they are dealt
C13_Witness ==
    /\ main_pc = "make_players"
    /\ n = 3
    /\ decks = << <<22, 19, 16, 13>>, <<23, 20, 17, 14>>, <<24, 21, 18, 15>> >>

(* C14: the deal of the hands.  Right after the deal every player holds 4  *)
(* cards: in hand order, player i holds the pack's cards at positions p in *)
(* 0..4n-1 with p mod n = i - 1 in descending position order, so no card   *)
(* of positions 4n..8n-1 is in a hand; the pack is used up.                *)
C14_DealHands ==
    (Dealt /\ turns = 0) =>
        /\ \A i \in 1..n :
              /\ Len(hand[i]) = 4
              /\ \A k \in 1..4 : hand[i][k] = loaded[(4 - k) * n + (i - 1) + 1]
        /\ pack = <<>>

\* three players and the pack 1..24: the hands before the first check
C14_Witness ==
    /\ main_pc = "check_before"
    /\ turns = 0
    /\ n = 3
    /\ hand = << <<10, 7, 4, 1>>, <<11, 8, 5, 2>>, <<12, 9, 6, 3>> >>

\* player p holds Deck d's lock, by where its take_turn is
Holds(p, d) ==
    \/ tpc[p] \in {"pop", "select", "lock_discard", "push"} /\ draw_deck[p] = d
    \/ tpc[p] = "push" /\ discard_deck[p] = d

CircularWait ==
    /\ n >= 2
    /\ \A p \in 1..n :
          /\ tpc[p] = "lock_discard"
          /\ lock[p] = p
          /\ discard_deck[p] = (p % n) + 1

(* C16: quick win.  In a program run whose pack gives every player four of *)
(* a kind, no take_turn is ever called, nothing dealt changes, and the     *)
(* game loop does reach "finished".                                        *)
C16_QuickWin ==
    /\ []((Dealt /\ \A i \in 1..n : AllSame(DealtHands[i])) =>
             /\ turns = 0
             /\ main_pc \in {"check_before", "finished"}
             /\ decks = DealtDecks
             /\ hand = DealtHands)
    /\ (Dealt /\ \A i \in 1..n : AllSame(DealtHands[i])) ~> main_pc = "finished"

\* two players, both dealt four of a kind, and the game is over at once
C16_Witness ==
    /\ main_pc = "finished"
    /\ n = 2
    /\ turns = 0
    /\ \A i \in 1..n : AllSame(hand[i]) /\ Len(hand[i]) = 4

(* C17: the frame of a turn.  A take_turn of player i on a non-empty draw  *)
(* deck takes exactly the front card off Deck i, changes no hand but       *)
(* player i's, and appends exactly one card to the back of Deck            *)
(* (i mod n) + 1, every other deck and hand staying as it was: each step   *)
(* of the turn keeps to this, and a turn that has drawn is never kept from *)
(* the lock of its discard deck, so the one card is appended.              *)
C17_TurnFrame ==
    /\ [][ \A p \in 1..n :
             /\ (tpc[p] = "pop" /\ tpc'[p] # "pop"
                    /\ decks[draw_deck[p]] # <<>>) =>
                   /\ draw_deck[p] = p
                   /\ decks' = [decks EXCEPT ![p] = Tail(@)]
                   /\ hand' = hand
             /\ (tpc[p] = "select" /\ tpc'[p] # "select") =>
                   /\ decks' = decks
                   /\ \A q \in 1..n : q # p => hand'[q] = hand[q]
             /\ (tpc[p] = "push" /\ tpc'[p] # "push") =>
                   /\ hand' = hand
                   /\ \E c \in RanksOf(loaded) :
                         decks' = [decks EXCEPT ![(p % n) + 1] = Append(@, c)]
         ]_vars
    /\ [](\A p \in 1..n : tpc[p] = "lock_discard" => ENABLED LockDiscard(p))

(* C18: concurrent turns with the code's lock order.  A take_turn holds    *)
(* its draw deck's lock while it takes and holds the discard deck's; and   *)
(* when every player holds its draw deck's lock and is at the lock of the  *)
(* next deck, no thread can ever take a step: a deadlock, and a reachable  *)
(* one.                                                                    *)
C18_LockOrderDeadlock ==
    /\ \A p \in 1..n :
          tpc[p] \in {"lock_discard", "push"} => lock[draw_deck[p]] = p
    /\ CircularWait =>
          /\ \A p \in 1..n : lock[discard_deck[p]] = (p % n) + 1
          /\ ~ENABLED NextPar

\* the circular wait, with two players or with three
C18_Witness == CircularWait /\ turns = n

(* C19: deck sizes in the program, n >= 2.  After the deal every deck      *)
(* holds 3, 4 or 5 cards, all hold 4 when a round starts, and a take_turn  *)
(* never finds its draw deck empty.                                        *)
C19_DeckSizes ==
    (Dealt /\ n >= 2) =>
        /\ \A d \in 1..n : Len(decks[d]) \in 3..5
        /\ (cur = 1 /\ main_pc \in {"check_before", "call_turn"}) =>
              \A d \in 1..n : Len(decks[d]) = 4
        /\ \A p \in 1..n :
              tpc[p] \in {"lock_draw", "pop"} => decks[draw_deck[p]] # <<>>

\* in a later round player 1's turn has returned: Deck 1 holds 3, Deck 2 holds 5
C19_Witness ==
    /\ Dealt /\ n >= 2
    /\ turns > n
    /\ main_pc = "in_turn"
    /\ cur = 1
    /\ tpc[1] = "returned"
    /\ Len(decks[1]) = 3
    /\ Len(decks[2]) = 5

\* no rank is four times in the loaded pack
NoFourOfARank == \A r \in RanksOf(loaded) : Count(loaded, r) < 4

(* C20: no win, no end.  In a program run whose pack holds no rank four    *)
(* times, main never reaches "finished"; in any run main is "finished"     *)
(* only with the current player's hand all of one rank; and with two or    *)
(* more players the loop, while not finished, always has a next step: the  *)
(* code sets no turn limit (the model stops at MaxTurns calls).            *)
C20_NoWinNoEnd ==
    /\ main_pc = "finished" => ~NoFourOfARank
    /\ main_pc = "finished" => AllSame(hand[cur]) /\ Len(hand[cur]) = 4
    /\ (n >= 2 /\ Dealt /\ main_pc # "finished") =>
          /\ main_pc \in {"check_before", "call_turn", "in_turn"}
          /\ main_pc = "check_before" => ENABLED CheckBefore
          /\ (main_pc = "call_turn" /\ turns < MaxTurns) =>
                ENABLED CallTakeTurn(MaxTurns)
          /\ main_pc = "in_turn" =>
                \/ ENABLED LockDraw(cur)
                \/ ENABLED PopFront(cur)
                \/ ENABLED SelectDiscard(cur)
                \/ ENABLED LockDiscard(cur)
                \/ ENABLED PushDiscard(cur)
                \/ ENABLED CheckAfter

\* two rounds into a game that no player can win
C20_Witness ==
    /\ NoFourOfARank
    /\ n >= 2
    /\ turns = MaxTurns
    /\ main_pc = "check_before"

====
